---- MODULE Spec2Model ----
(***************************************************************************)
(* Model of the document-extraction service in src/main.py: the POST       *)
(* /extract handler analyze, the extraction functions it dispatches to,    *)
(* and the backend client call_ollama.  Texts are TLA+ strings; the        *)
(* external libraries (pdfplumber, fitz, pytesseract, python-docx, httpx)  *)
(* are the environment: what they return for a given upload is part of the *)
(* upload's description, drawn from bounded sets.                          *)
(***************************************************************************)
EXTENDS Integers, Sequences, FiniteSets, TLC

(***************************************************************************)
(* Program constants (src/main.py:16-21).                                  *)
(***************************************************************************)
PDF_TYPE == "application/pdf"

DOCX_TYPE == "application/vnd.openxmlformats-officedocument.wordprocessingml.document"

IMAGE_TYPES == {"image/png", "image/jpeg", "image/webp", "image/tiff"}

ALLOWED_TYPES == {PDF_TYPE, DOCX_TYPE} \cup IMAGE_TYPES

MAX_SIZE == 20 * 1024 * 1024

(***************************************************************************)
(* Python string operations used by the code.                              *)
(***************************************************************************)
\* str.strip() with no argument removes the characters of str.isspace() at
\* both ends: space, \t, \n, \r, \f, U+000B, U+001C..U+001F, U+0085, U+00A0,
\* written raw below, and the Unicode spaces above U+00FF (U+1680,
\* U+2000..U+200A, U+2028, U+2029, U+202F, U+205F, U+3000), which the lexer of
\* a module rejects and no text of the model holds.
PyWhitespace ==
    {" ", "\t", "\n", "\r", "\f", "", "", "", "", "", "", " "}

CharAt(s, i) == SubSeq(s, i, i)

RECURSIVE LStrip(_)
LStrip(s) ==
    IF Len(s) = 0 THEN s
    ELSE IF CharAt(s, 1) \in PyWhitespace THEN LStrip(SubSeq(s, 2, Len(s)))
    ELSE s

RECURSIVE RStrip(_)
RStrip(s) ==
    IF Len(s) = 0 THEN s
    ELSE IF CharAt(s, Len(s)) \in PyWhitespace THEN RStrip(SubSeq(s, 1, Len(s) - 1))
    ELSE s

Strip(s) == RStrip(LStrip(s))

\* str.startswith / str.endswith
StartsWith(s, p) == Len(s) >= Len(p) /\ SubSeq(s, 1, Len(p)) = p

EndsWith(s, p) == Len(s) >= Len(p) /\ SubSeq(s, Len(s) - Len(p) + 1, Len(s)) = p

\* s[n:] and s[:-n]
DropFirst(s, n) == SubSeq(s, n + 1, Len(s))

DropLast(s, n) == SubSeq(s, 1, Len(s) - n)

\* sep.join(parts) for a sequence of strings
RECURSIVE Join(_, _)
Join(parts, sep) ==
    IF Len(parts) = 0 THEN ""
    ELSE IF Len(parts) = 1 THEN parts[1]
    ELSE parts[1] \o sep \o Join(Tail(parts), sep)

\* [x for x in xs if x]: the non-empty strings of a sequence, in order
RECURSIVE NonEmpty(_)
NonEmpty(xs) ==
    IF Len(xs) = 0 THEN <<>>
    ELSE IF xs[1] = "" THEN NonEmpty(Tail(xs))
    ELSE <<xs[1]>> \o NonEmpty(Tail(xs))

(***************************************************************************)
(* call_ollama: sanitization of the model output (src/main.py:103-110).    *)
(***************************************************************************)
\* A TLA+ string cannot hold the grave accent (U+0060): the model writes the
\* fence character as the apostrophe, so FENCE stands for three grave accents.
FENCE_JSON == "'''json"

FENCE == "'''"

StripJsonOpener(c) == IF StartsWith(c, FENCE_JSON) THEN DropFirst(c, 7) ELSE c

StripOpener(c) == IF StartsWith(c, FENCE) THEN DropFirst(c, 3) ELSE c

StripCloser(c) == IF EndsWith(c, FENCE) THEN DropLast(c, 3) ELSE c

\* The three tests are independent if statements, applied one after another.
Sanitize(content) == Strip(StripCloser(StripOpener(StripJsonOpener(Strip(content)))))

(***************************************************************************)
(* json.loads (src/main.py:112) on the texts over JsonAlphabet: the fence   *)
(* character, the braces, the digit 7, the comma, the letters of "json"    *)
(* and of "Sorry, no data", and the four JSON whitespace characters.  No   *)
(* string, array, sign, fraction, exponent or literal (true, false, null,  *)
(* NaN, Infinity) can be written with them, so such a text is JSON iff it  *)
(* is, between optional JSON whitespace, an empty object or an integer     *)
(* written with the digit 7.  Every text of ReplyContents, raw or          *)
(* sanitized, is over JsonAlphabet; on other texts the operators below are *)
(* not a model of json.loads.                                              *)
(***************************************************************************)
JsonAlphabet ==
    {"'", "{", "}", "7", ",", "j", "s", "o", "n", "S", "r", "y", "d", "a", "t",
     " ", "\t", "\n", "\r"}

JsonWhitespace == {" ", "\t", "\n", "\r"}

RECURSIVE JsonLStrip(_)
JsonLStrip(s) ==
    IF Len(s) = 0 THEN s
    ELSE IF CharAt(s, 1) \in JsonWhitespace THEN JsonLStrip(SubSeq(s, 2, Len(s)))
    ELSE s

RECURSIVE JsonRStrip(_)
JsonRStrip(s) ==
    IF Len(s) = 0 THEN s
    ELSE IF CharAt(s, Len(s)) \in JsonWhitespace THEN JsonRStrip(SubSeq(s, 1, Len(s) - 1))
    ELSE s

IsJsonNumber(t) == Len(t) >= 1 /\ \A i \in 1..Len(t) : CharAt(t, i) = "7"

IsJsonEmptyObject(t) ==
    /\ Len(t) >= 2
    /\ CharAt(t, 1) = "{"
    /\ CharAt(t, Len(t)) = "}"
    /\ \A i \in 2..(Len(t) - 1) : CharAt(t, i) \in JsonWhitespace

JsonParses(s) ==
    LET t == JsonRStrip(JsonLStrip(s))
    IN  IsJsonNumber(t) \/ IsJsonEmptyObject(t)

\* The parsed value, written canonically (defined where JsonParses holds).
JsonValue(s) ==
    LET t == JsonRStrip(JsonLStrip(s))
    IN  IF IsJsonNumber(t) THEN t ELSE "{}"

(***************************************************************************)
(* extraction_prompt.py: the user message wraps the extracted text.        *)
(***************************************************************************)
USER_PROMPT_HEAD == "Extract all ingredient specification data from the following document text and return it as a JSON object following the schema provided in your instructions.\n\n## DOCUMENT TEXT:\n"

USER_PROMPT_TAIL == "\n\nReturn ONLY the JSON object. No explanations, no markdown fences, no additional text."

\* EXTRACTION_USER_PROMPT_TEMPLATE.format(extracted_text=...)
FormatUserPrompt(extracted_text) == USER_PROMPT_HEAD \o extracted_text \o USER_PROMPT_TAIL

(***************************************************************************)
(* Bounds of the model.                                                    *)
(***************************************************************************)
\* the largest number of pages of an uploaded PDF
MaxPages == 2

(***************************************************************************)
(* The environment: what the libraries make of an upload body.             *)
(*   size        len(data)                                                 *)
(*   corrupt     the parser of the dispatched format rejects the bytes     *)
(*   pages       per PDF page: the result of page.extract_text() and of    *)
(*               OCR on the rendering of that page                         *)
(*   paragraphs, tables   the DOCX paragraphs and tables (rows of cells)   *)
(*   image_ocr   the result of OCR on the image                            *)
(* A library result is [kind, val]: kind "text" (val is the text), "none"  *)
(* (None returned) or "raise" (val is the description of the exception).   *)
(***************************************************************************)
Text(t) == [kind |-> "text", val |-> t]

None == [kind |-> "none", val |-> ""]

Raise(msg) == [kind |-> "raise", val |-> msg]

BodySizes == {1024, MAX_SIZE, MAX_SIZE + 1}

\* a page whose text layer is used, a page whose text layer raises, and the
\* pages whose text layer is blank (None, empty, whitespace) with each OCR result
OcrResults == {Text(" NaCl\n"), Text(" \n"), Raise("tesseract failed")}

PageKinds ==
    {[layer |-> Text(" Salt \n"), ocr |-> Text(" NaCl\n")],
     [layer |-> Raise("bad page stream"), ocr |-> Text(" NaCl\n")]}
    \cup [layer : {None, Text(""), Text(" \n")}, ocr : OcrResults]

PageSeqs == UNION {[1..n -> PageKinds] : n \in 0..MaxPages}

EmptyBody ==
    [size |-> 0, corrupt |-> TRUE, pages |-> <<>>, paragraphs |-> <<>>,
     tables |-> <<>>, image_ocr |-> Raise("cannot identify image file")]

PdfBodies ==
    {[EmptyBody EXCEPT !.size = sz, !.corrupt = FALSE, !.pages = ps] :
        sz \in BodySizes, ps \in PageSeqs}
    \cup {[EmptyBody EXCEPT !.size = sz] : sz \in BodySizes}

DocxParagraphs == {<<>>, <<" ">>, <<" Salt ">>, <<"Salt", "", "NaCl ">>}

DocxTables == {<<>>, << <<<<"A", " 7">>, <<"", "Salt ">>>> >>, << <<<<" ">>>> >>}

DocxBodies ==
    {[EmptyBody EXCEPT !.size = sz, !.corrupt = FALSE, !.paragraphs = ps, !.tables = ts] :
        sz \in BodySizes, ps \in DocxParagraphs, ts \in DocxTables}
    \cup {[EmptyBody EXCEPT !.size = sz] : sz \in BodySizes}

ImageBodies ==
    {[EmptyBody EXCEPT !.size = sz, !.corrupt = FALSE, !.image_ocr = o] :
        sz \in BodySizes, o \in {Text(""), Text(" \n"), Text(" \n\f"), Text("Salt\n\f"),
                                Raise("tesseract failed")}}
    \cup {[EmptyBody EXCEPT !.size = sz] : sz \in BodySizes}

REJECTED_TYPES == {"text/plain", "application/msword"}

BodiesOf(content_type) ==
    IF content_type = PDF_TYPE THEN PdfBodies
    ELSE IF content_type = DOCX_TYPE THEN DocxBodies
    ELSE IF content_type \in IMAGE_TYPES THEN ImageBodies
    ELSE {[EmptyBody EXCEPT !.size = sz] : sz \in BodySizes}

\* An upload: the declared content type, the filename, the body, and whether
\* the temporary directory has room for the body (disk_full: tmp.write raises).
Uploads ==
    UNION {[content_type : {ct}, filename : {"spec-sheet"}, body : BodiesOf(ct),
            disk_full : IF ct = PDF_TYPE THEN BOOLEAN ELSE {FALSE}] :
           ct \in ALLOWED_TYPES \cup REJECTED_TYPES}

(***************************************************************************)
(* The environment: what the backend answers to the chat request.          *)
(*   transport   "ok", or the httpx failure raised by client.post          *)
(*   status      the HTTP status of the answer                             *)
(*   body_kind   "envelope": JSON with message.content a string;           *)
(*               "not_json": the body is not JSON;                         *)
(*               "no_message": JSON without the key message;               *)
(*               "content_null": message.content is null                   *)
(*   content     message.content                                           *)
(***************************************************************************)
OverJsonAlphabet(s) == \A i \in 1..Len(s) : CharAt(s, i) \in JsonAlphabet

ReplyContents ==
    {c \in {"{}", "'''json\n{}\n'''", " '''\n77\n''' ", "{ }\n", "'''json'''{}'''",
            "Sorry, no data", "", "'''json\n{}"} : OverJsonAlphabet(c)}

Replies ==
    [transport : {"ConnectError", "ReadTimeout"}, status : {0},
     body_kind : {"none"}, content : {""}]
    \cup [transport : {"ok"}, status : {404, 503},
          body_kind : {"envelope"}, content : {"{}"}]
    \cup [transport : {"ok"}, status : {200},
          body_kind : {"not_json", "no_message", "content_null"}, content : {""}]
    \cup [transport : {"ok"}, status : {200, 201},
          body_kind : {"envelope"}, content : ReplyContents]

NoReply == [transport |-> "none", status |-> 0, body_kind |-> "none", content |-> ""]

(***************************************************************************)
(* State.  Every variable but fs is a function of the request.             *)
(***************************************************************************)
VARIABLES
    upload,        \* the UploadFile of the request
    pc,            \* where the handler is
    data,          \* analyze: data, the body read from the upload (<<>> before)
    fs,            \* the temporary directory: a set of files [name, creator, body]
    tmp_path,      \* extract_from_pdf: tmp.name
    pdf,           \* extract_from_pdf: the document pdfplumber opened
    page_num,      \* extract_from_pdf: the loop counter
    all_pages,     \* extract_from_pdf: all_pages
    exc,           \* extract_from_pdf: the exception in flight in the try block
    extraction,    \* analyze: extraction, once assigned (<<>> before)
    all_text,      \* analyze: all_text
    response,      \* the HTTP response of the request
    reads,         \* how many times file.read() was called
    extract_calls, \* the extraction functions invoked, in order
    ocr_calls,     \* the page indexes ocr_page was invoked with, in order
    requests,      \* the user messages posted to the backend, in order
    reply,         \* the answer of the backend
    loads_arg      \* the texts handed to json.loads in call_ollama, in order

vars ==
    <<upload, pc, data, fs, tmp_path, pdf, page_num, all_pages, exc, extraction,
      all_text, response, reads, extract_calls, ocr_calls, requests, reply, loads_arg>>

Reqs == DOMAIN pc

\* the names NamedTemporaryFile can draw
TempNames == {"/tmp/tmpa.pdf", "/tmp/tmpb.pdf"}

NoResponse == [status |-> 0, detail |-> "", filename |-> "", structured_data |-> ""]

\* raise HTTPException(status, detail)
HTTPException(status, detail) ==
    [status |-> status, detail |-> detail, filename |-> "", structured_data |-> ""]

\* return {"filename": ..., "structured_data": ...}
Success(filename, structured_data) ==
    [status |-> 200, detail |-> "", filename |-> filename, structured_data |-> structured_data]

NoExc == [kind |-> "none", val |-> ""]

InitFor(ids, uploads) ==
    /\ upload \in [ids -> uploads]
    /\ pc = [r \in ids |-> "start"]
    /\ data = [r \in ids |-> <<>>]
    /\ fs = {}
    /\ tmp_path = [r \in ids |-> ""]
    /\ pdf = [r \in ids |-> EmptyBody]
    /\ page_num = [r \in ids |-> 0]
    /\ all_pages = [r \in ids |-> <<>>]
    /\ exc = [r \in ids |-> NoExc]
    /\ extraction = [r \in ids |-> <<>>]
    /\ all_text = [r \in ids |-> ""]
    /\ response = [r \in ids |-> NoResponse]
    /\ reads = [r \in ids |-> 0]
    /\ extract_calls = [r \in ids |-> <<>>]
    /\ ocr_calls = [r \in ids |-> <<>>]
    /\ requests = [r \in ids |-> <<>>]
    /\ reply = [r \in ids |-> NoReply]
    /\ loads_arg = [r \in ids |-> <<>>]

\* one request, any upload
Init == InitFor({"r1"}, Uploads)

(***************************************************************************)
(* analyze: validation (src/main.py:30-35).                                *)
(***************************************************************************)
\* variant: every application/* type is let through
TypeAllowed_AnyApplication(content_type) ==
    content_type \in ALLOWED_TYPES \/ StartsWith(content_type, "application/")

TypeAllowed(content_type) == content_type \in ALLOWED_TYPES

\* variant: the limit itself is rejected
TooLarge_Inclusive(n) == n >= MAX_SIZE

TooLarge(n) == n > MAX_SIZE

Finish(r, resp) ==
    /\ response' = [response EXCEPT ![r] = resp]
    /\ pc' = [pc EXCEPT ![r] = "done"]

Goto(r, label) ==
    /\ pc' = [pc EXCEPT ![r] = label]
    /\ UNCHANGED response

CheckContentType(r) ==
    /\ pc[r] = "start"
    /\ IF ~TypeAllowed(upload[r].content_type)
       THEN Finish(r, HTTPException(400, "Unsupported type: " \o upload[r].content_type))
       ELSE Goto(r, "read")
    /\ UNCHANGED <<upload, data, fs, tmp_path, pdf, page_num, all_pages, exc, extraction,
                   all_text, reads, extract_calls, ocr_calls, requests, reply, loads_arg>>

ReadBody(r) ==
    /\ pc[r] = "read"
    /\ reads' = [reads EXCEPT ![r] = @ + 1]
    /\ data' = [data EXCEPT ![r] = <<upload[r].body>>]
    /\ IF TooLarge(upload[r].body.size)
       THEN Finish(r, HTTPException(413, "File too large (max 20MB)"))
       ELSE Goto(r, "extract")
    /\ UNCHANGED <<upload, fs, tmp_path, pdf, page_num, all_pages, exc, extraction,
                   all_text, extract_calls, ocr_calls, requests, reply, loads_arg>>

(***************************************************************************)
(* analyze: dispatch to the extraction functions (src/main.py:38-46).      *)
(***************************************************************************)
\* except Exception as e: raise HTTPException(500, f"Extraction failed: {str(e)}")
ExtractionFailed(msg) == HTTPException(500, "Extraction failed: " \o msg)

\* extract_from_docx: the stripped non-empty paragraphs, then one part per
\* table: its rows joined by newline, each row its stripped cells joined by " | "
DocxRow(row) == Join([c \in 1..Len(row) |-> Strip(row[c])], " | ")

DocxTable(table) == Join([i \in 1..Len(table) |-> DocxRow(table[i])], "\n")

DocxParts(body) ==
    NonEmpty([i \in 1..Len(body.paragraphs) |-> Strip(body.paragraphs[i])])
    \o [t \in 1..Len(body.tables) |-> DocxTable(body.tables[t])]

extract_from_docx(body) ==
    IF body.corrupt THEN Raise("File is not a zip file")
    ELSE Text(Join(DocxParts(body), "\n"))

\* variant: a failure of the image pipeline is turned into an empty text
extract_from_image_Swallow(body) ==
    IF body.corrupt \/ body.image_ocr.kind = "raise" THEN Text("")
    ELSE body.image_ocr

\* extract_from_image: the OCR output as it is, not stripped
extract_from_image(body) ==
    IF body.corrupt THEN Raise("cannot identify image file")
    ELSE body.image_ocr

\* the single synthetic page of a DOCX or an image
SinglePage(text) == <<[page |-> 1, text |-> text]>>

ExtractFromDocx(r) ==
    /\ pc[r] = "extract"
    /\ upload[r].content_type = DOCX_TYPE
    /\ extract_calls' = [extract_calls EXCEPT ![r] = Append(@, "extract_from_docx")]
    /\ LET res == extract_from_docx(data[r][1])
       IN  IF res.kind = "raise"
           THEN Finish(r, ExtractionFailed(res.val)) /\ UNCHANGED extraction
           ELSE /\ extraction' = [extraction EXCEPT ![r] = <<[pages |-> SinglePage(res.val)]>>]
                /\ Goto(r, "join")
    /\ UNCHANGED <<upload, data, fs, tmp_path, pdf, page_num, all_pages, exc,
                   all_text, reads, ocr_calls, requests, reply, loads_arg>>

ExtractFromImage(r) ==
    /\ pc[r] = "extract"
    /\ upload[r].content_type # PDF_TYPE
    /\ upload[r].content_type # DOCX_TYPE
    /\ extract_calls' = [extract_calls EXCEPT ![r] = Append(@, "extract_from_image")]
    /\ LET res == extract_from_image(data[r][1])
       IN  IF res.kind = "raise"
           THEN Finish(r, ExtractionFailed(res.val)) /\ UNCHANGED extraction
           ELSE /\ extraction' = [extraction EXCEPT ![r] = <<[pages |-> SinglePage(res.val)]>>]
                /\ Goto(r, "join")
    /\ UNCHANGED <<upload, data, fs, tmp_path, pdf, page_num, all_pages, exc,
                   all_text, reads, ocr_calls, requests, reply, loads_arg>>

(***************************************************************************)
(* extract_from_pdf (src/main.py:115-131) and ocr_page (151-158).          *)
(***************************************************************************)
FileNames == {f.name : f \in fs}

FileAt(name) == CHOOSE f \in fs : f.name = name

\* variant: every request writes to the same fixed path
FreshNames_Fixed == {"/tmp/tmpa.pdf"}

\* NamedTemporaryFile opens its file with O_EXCL: the name is one no file has
FreshNames == TempNames \ FileNames

\* with tempfile.NamedTemporaryFile(suffix=".pdf", delete=False) as tmp:
PdfCreateTemp(r) ==
    /\ pc[r] = "extract"
    /\ upload[r].content_type = PDF_TYPE
    /\ extract_calls' = [extract_calls EXCEPT ![r] = Append(@, "extract_from_pdf")]
    /\ \E name \in FreshNames :
        /\ tmp_path' = [tmp_path EXCEPT ![r] = name]
        /\ fs' = {f \in fs : f.name # name}
                 \cup {[name |-> name, creator |-> r, body |-> EmptyBody]}
    /\ Goto(r, "pdf_write")
    /\ UNCHANGED <<upload, data, pdf, page_num, all_pages, exc, extraction,
                   all_text, reads, ocr_calls, requests, reply, loads_arg>>

\* tmp.write(data), then the with block closes the file.  A failing write
\* leaves the with block before the try statement is entered.
PdfWriteTemp(r) ==
    /\ pc[r] = "pdf_write"
    /\ IF upload[r].disk_full
       THEN /\ Finish(r, ExtractionFailed("[Errno 28] No space left on device"))
            /\ UNCHANGED fs
       ELSE /\ fs' = {IF f.name = tmp_path[r] THEN [f EXCEPT !.body = data[r][1]] ELSE f :
                        f \in fs}
            /\ Goto(r, "pdf_open")
    /\ UNCHANGED <<upload, data, tmp_path, pdf, page_num, all_pages, exc, extraction,
                   all_text, reads, extract_calls, ocr_calls, requests, reply, loads_arg>>

\* str(FileNotFoundError) of open(path) and of os.unlink(path)
NoSuchFile(path) == "[Errno 2] No such file or directory: '" \o path \o "'"

\* with pdfplumber.open(tmp_path) as pdf: an exception goes to the finally clause
PdfOpen(r) ==
    /\ pc[r] = "pdf_open"
    /\ IF tmp_path[r] \notin FileNames
       THEN /\ exc' = [exc EXCEPT ![r] = Raise(NoSuchFile(tmp_path[r]))]
            /\ Goto(r, "pdf_unlink")
            /\ UNCHANGED <<pdf, page_num>>
       ELSE IF FileAt(tmp_path[r]).body.corrupt
       THEN /\ exc' = [exc EXCEPT ![r] = Raise("No /Root object! - Is this really a PDF?")]
            /\ Goto(r, "pdf_unlink")
            /\ UNCHANGED <<pdf, page_num>>
       ELSE /\ pdf' = [pdf EXCEPT ![r] = FileAt(tmp_path[r]).body]
            /\ page_num' = [page_num EXCEPT ![r] = 1]
            /\ Goto(r, IF Len(FileAt(tmp_path[r]).body.pages) = 0
                       THEN "pdf_unlink" ELSE "pdf_page")
            /\ UNCHANGED exc
    /\ UNCHANGED <<upload, data, fs, tmp_path, all_pages, extraction,
                   all_text, reads, extract_calls, ocr_calls, requests, reply, loads_arg>>

\* text = page.extract_text() or ""
LayerText(layer) == IF layer.kind = "none" THEN "" ELSE layer.val

\* if not text.strip(): the page goes to OCR
NeedsOcr(text) == Strip(text) = ""

\* variant: the 1-based page number is used as the index
ocr_page_NextPage(pdf_data, page_index) ==
    IF pdf_data.corrupt THEN Raise("Failed to open stream")
    ELSE IF page_index + 2 > Len(pdf_data.pages) THEN Raise("page not in document")
    ELSE LET res == pdf_data.pages[page_index + 2].ocr
         IN  IF res.kind = "raise" THEN res ELSE Text(Strip(res.val))

\* ocr_page(pdf_data, page_index): the stripped OCR output of doc[page_index]
\* rendered at 300 DPI
ocr_page(pdf_data, page_index) ==
    IF pdf_data.corrupt THEN Raise("Failed to open stream")
    ELSE IF page_index + 1 > Len(pdf_data.pages) THEN Raise("page not in document")
    ELSE LET res == pdf_data.pages[page_index + 1].ocr
         IN  IF res.kind = "raise" THEN res ELSE Text(Strip(res.val))

\* all_pages.append({"page": page_num, "text": text.strip()})
PageEntry(n, text) == [page |-> n, text |-> Strip(text)]

\* one iteration of: for page_num, page in enumerate(pdf.pages, 1)
PdfPage(r) ==
    /\ pc[r] = "pdf_page"
    /\ LET n     == page_num[r]
           layer == pdf[r].pages[n].layer
           last  == n = Len(pdf[r].pages)
           ocr   == ocr_page(data[r][1], n - 1)
       IN  IF layer.kind = "raise"
           THEN /\ exc' = [exc EXCEPT ![r] = layer]
                /\ Goto(r, "pdf_unlink")
                /\ UNCHANGED <<page_num, all_pages, ocr_calls>>
           ELSE IF NeedsOcr(LayerText(layer))
           THEN /\ ocr_calls' = [ocr_calls EXCEPT ![r] = Append(@, n - 1)]
                /\ IF ocr.kind = "raise"
                   THEN /\ exc' = [exc EXCEPT ![r] = ocr]
                        /\ Goto(r, "pdf_unlink")
                        /\ UNCHANGED <<page_num, all_pages>>
                   ELSE /\ all_pages' = [all_pages EXCEPT ![r] = Append(@, PageEntry(n, ocr.val))]
                        /\ page_num' = [page_num EXCEPT ![r] = n + 1]
                        /\ Goto(r, IF last THEN "pdf_unlink" ELSE "pdf_page")
                        /\ UNCHANGED exc
           ELSE /\ all_pages' = [all_pages EXCEPT ![r] = Append(@, PageEntry(n, LayerText(layer)))]
                /\ page_num' = [page_num EXCEPT ![r] = n + 1]
                /\ Goto(r, IF last THEN "pdf_unlink" ELSE "pdf_page")
                /\ UNCHANGED <<exc, ocr_calls>>
    /\ UNCHANGED <<upload, data, fs, tmp_path, pdf, extraction,
                   all_text, reads, extract_calls, requests, reply, loads_arg>>

\* finally: os.unlink(tmp_path); then the exception in flight propagates to
\* analyze, or extract_from_pdf returns {"pages": all_pages}
PdfUnlink(r) ==
    /\ pc[r] = "pdf_unlink"
    /\ IF tmp_path[r] \notin FileNames
       THEN /\ Finish(r, ExtractionFailed(NoSuchFile(tmp_path[r])))
            /\ UNCHANGED <<fs, extraction>>
       ELSE /\ fs' = {f \in fs : f.name # tmp_path[r]}
            /\ IF exc[r].kind = "raise"
               THEN Finish(r, ExtractionFailed(exc[r].val)) /\ UNCHANGED extraction
               ELSE /\ extraction' = [extraction EXCEPT ![r] = <<[pages |-> all_pages[r]]>>]
                    /\ Goto(r, "join")
    /\ UNCHANGED <<upload, data, tmp_path, pdf, page_num, all_pages, exc,
                   all_text, reads, extract_calls, ocr_calls, requests, reply, loads_arg>>

(***************************************************************************)
(* analyze: the joined text (src/main.py:48-53).                           *)
(***************************************************************************)
PageTexts(pages) == [i \in 1..Len(pages) |-> pages[i].text]

\* "\n\n".join(page["text"] for page in extraction["pages"] if page.get("text"))
JoinPages(pages) == Join(NonEmpty(PageTexts(pages)), "\n\n")

\* variant: the joined text is tested without being stripped
NoText_Unstripped(text) == text = ""

\* if not all_text.strip()
NoText(text) == Strip(text) = ""

JoinText(r) ==
    /\ pc[r] = "join"
    /\ all_text' = [all_text EXCEPT ![r] = JoinPages(extraction[r][1].pages)]
    /\ IF NoText(JoinPages(extraction[r][1].pages))
       THEN Finish(r, HTTPException(422, "No text could be extracted from the document"))
       ELSE Goto(r, "llm")
    /\ UNCHANGED <<upload, data, fs, tmp_path, pdf, page_num, all_pages, exc, extraction,
                   reads, extract_calls, ocr_calls, requests, reply, loads_arg>>

(***************************************************************************)
(* call_ollama (src/main.py:69-112) and its caller (src/main.py:56-66).    *)
(***************************************************************************)
\* client.post(f"{OLLAMA_URL}/api/chat", json=payload, headers=headers)
CallOllama(r) ==
    /\ pc[r] = "llm"
    /\ requests' = [requests EXCEPT ![r] = Append(@, FormatUserPrompt(all_text[r]))]
    /\ Goto(r, "await")
    /\ UNCHANGED <<upload, data, fs, tmp_path, pdf, page_num, all_pages, exc, extraction,
                   all_text, reads, extract_calls, ocr_calls, reply, loads_arg>>

\* httpx: Response.is_success
IsSuccess(status) == status >= 200 /\ status <= 299

Returns(value) == [kind |-> "return", type |-> "", val |-> value]

Raises(type, msg) == [kind |-> "raise", type |-> type, val |-> msg]

\* json.loads(content)
JsonLoads(content) ==
    IF JsonParses(content) THEN Returns(JsonValue(content))
    ELSE Raises("JSONDecodeError", "Expecting value")

\* What call_ollama does with the answer: client.post raises on a transport
\* failure; raise_for_status raises unless the status is 2xx; response.json()
\* raises json.JSONDecodeError on a body that is not JSON; result["message"]
\* raises KeyError; content.strip() raises AttributeError on null; otherwise
\* the sanitized content goes to json.loads.
AfterReply(rep) ==
    IF rep.transport # "ok" THEN Raises(rep.transport, "backend unreachable")
    ELSE IF ~IsSuccess(rep.status) THEN Raises("HTTPStatusError", "error status from backend")
    ELSE IF rep.body_kind = "not_json" THEN Raises("JSONDecodeError", "Expecting value")
    ELSE IF rep.body_kind = "no_message" THEN Raises("KeyError", "'message'")
    ELSE IF rep.body_kind = "content_null"
         THEN Raises("AttributeError", "'NoneType' object has no attribute 'strip'")
    ELSE JsonLoads(Sanitize(rep.content))

\* whether call_ollama reaches json.loads(content) on this answer
ReachesLoads(rep) ==
    rep.transport = "ok" /\ IsSuccess(rep.status) /\ rep.body_kind = "envelope"

\* analyze: except json.JSONDecodeError / except Exception / return
AnalyzeResult(filename, res) ==
    IF res.kind = "return" THEN Success(filename, res.val)
    ELSE IF res.type = "JSONDecodeError" THEN HTTPException(502, "LLM returned invalid JSON")
    ELSE HTTPException(502, "LLM analysis failed: " \o res.val)

\* await client.post(...) ends: the answer has arrived, or the call has
\* raised.  The exit of the async with block is awaited next (on the
\* exception path too), so other requests run before the handler goes on.
BackendReply(r) ==
    /\ pc[r] = "await"
    /\ \E rep \in Replies : reply' = [reply EXCEPT ![r] = rep]
    /\ Goto(r, "aexit")
    /\ UNCHANGED <<upload, data, fs, tmp_path, pdf, page_num, all_pages, exc, extraction,
                   all_text, reads, extract_calls, ocr_calls, requests, loads_arg>>

\* variant: a failed attempt is followed by a second one
FinishCall_Retry(r) ==
    /\ pc[r] = "aexit"
    /\ loads_arg' = [loads_arg EXCEPT ![r] =
                        IF ReachesLoads(reply[r]) THEN Append(@, Sanitize(reply[r].content))
                        ELSE @]
    /\ IF AfterReply(reply[r]).kind = "raise" /\ Len(requests[r]) < 2
       THEN /\ requests' = [requests EXCEPT ![r] = Append(@, FormatUserPrompt(all_text[r]))]
            /\ Goto(r, "await")
       ELSE /\ Finish(r, AnalyzeResult(upload[r].filename, AfterReply(reply[r])))
            /\ UNCHANGED requests
    /\ UNCHANGED <<upload, data, fs, tmp_path, pdf, page_num, all_pages, exc, extraction,
                   all_text, reads, extract_calls, ocr_calls, reply>>

\* after the async with block: the exception propagates to analyze, or
\* response.json(), the sanitization and json.loads run and analyze returns
FinishCall(r) ==
    /\ pc[r] = "aexit"
    /\ loads_arg' = [loads_arg EXCEPT ![r] =
                        IF ReachesLoads(reply[r]) THEN Append(@, Sanitize(reply[r].content))
                        ELSE @]
    /\ Finish(r, AnalyzeResult(upload[r].filename, AfterReply(reply[r])))
    /\ UNCHANGED <<upload, data, fs, tmp_path, pdf, page_num, all_pages, exc, extraction,
                   all_text, reads, extract_calls, ocr_calls, requests, reply>>

(***************************************************************************)
(* The specifications.                                                     *)
(***************************************************************************)
Next ==
    \/ \E r \in Reqs : CheckContentType(r)
    \/ \E r \in Reqs : ReadBody(r)
    \/ \E r \in Reqs : ExtractFromDocx(r)
    \/ \E r \in Reqs : ExtractFromImage(r)
    \/ \E r \in Reqs : PdfCreateTemp(r)
    \/ \E r \in Reqs : PdfWriteTemp(r)
    \/ \E r \in Reqs : PdfOpen(r)
    \/ \E r \in Reqs : PdfPage(r)
    \/ \E r \in Reqs : PdfUnlink(r)
    \/ \E r \in Reqs : JoinText(r)
    \/ \E r \in Reqs : CallOllama(r)
    \/ \E r \in Reqs : BackendReply(r)
    \/ \E r \in Reqs : FinishCall(r)

\* one request
Spec == Init /\ [][Next]_vars

\* Two requests in flight at once.  Every step of one may fall between any two
\* steps of the other: the hosting runtime may serve them from parallel workers
\* that share the temporary directory.
ConcPageSeqs ==
    {<<[layer |-> Text(" Salt \n"), ocr |-> Text(" NaCl\n")]>>,
     <<[layer |-> Text(""), ocr |-> Text(" NaCl\n")]>>,
     <<[layer |-> None, ocr |-> Raise("tesseract failed")]>>,
     <<[layer |-> Text(" Salt \n"), ocr |-> Text(" NaCl\n")],
       [layer |-> Text(" \n"), ocr |-> Text(" NaCl\n")]>>}

UploadsConc ==
    {u \in Uploads :
        /\ u.body.size = 1024
        /\ u.content_type \in {PDF_TYPE, DOCX_TYPE, "image/png", "text/plain"}
        /\ u.content_type = DOCX_TYPE =>
              (u.body.paragraphs = <<" Salt ">> /\ u.body.tables = <<>>)
        /\ u.content_type = PDF_TYPE => (u.body.corrupt \/ u.body.pages \in ConcPageSeqs)
        /\ u.content_type = "image/png" => u.body.image_ocr = Text("Salt\n\f")}

InitConc == InitFor({"r1", "r2"}, UploadsConc)

SpecConc == InitConc /\ [][Next]_vars

(***************************************************************************)
(* A request processed alone: the response as a function of the upload and *)
(* of the answer of the backend, following analyze from top to bottom.     *)
(***************************************************************************)
RECURSIVE PdfPagesAlone(_, _, _)
PdfPagesAlone(body, n, acc) ==
    IF n > Len(body.pages) THEN Returns(acc)
    ELSE LET layer == body.pages[n].layer
             ocr   == ocr_page(body, n - 1)
         IN  IF layer.kind = "raise" THEN Raises("Exception", layer.val)
             ELSE IF NeedsOcr(LayerText(layer))
             THEN IF ocr.kind = "raise" THEN Raises("Exception", ocr.val)
                  ELSE PdfPagesAlone(body, n + 1, Append(acc, PageEntry(n, ocr.val)))
             ELSE PdfPagesAlone(body, n + 1, Append(acc, PageEntry(n, LayerText(layer))))

ExtractAlone(u) ==
    IF u.content_type = PDF_TYPE
    THEN IF u.disk_full THEN Raises("OSError", "[Errno 28] No space left on device")
         ELSE IF u.body.corrupt
         THEN Raises("Exception", "No /Root object! - Is this really a PDF?")
         ELSE PdfPagesAlone(u.body, 1, <<>>)
    ELSE LET res == IF u.content_type = DOCX_TYPE THEN extract_from_docx(u.body)
                    ELSE extract_from_image(u.body)
         IN  IF res.kind = "raise" THEN Raises("Exception", res.val)
             ELSE Returns(SinglePage(res.val))

ResponseAlone(u, rep) ==
    IF ~TypeAllowed(u.content_type)
    THEN HTTPException(400, "Unsupported type: " \o u.content_type)
    ELSE IF TooLarge(u.body.size) THEN HTTPException(413, "File too large (max 20MB)")
    ELSE LET ext == ExtractAlone(u)
         IN  IF ext.kind = "raise" THEN ExtractionFailed(ext.val)
             ELSE IF NoText(JoinPages(ext.val))
             THEN HTTPException(422, "No text could be extracted from the document")
             ELSE AnalyzeResult(u.filename, AfterReply(rep))

(***************************************************************************)
(* Vocabulary of the properties, stated on the upload and the answer       *)
(* rather than on the code's intermediate values.                          *)
(***************************************************************************)
Done(r) == pc[r] = "done"

\* the six accepted media types
AcceptedMediaTypes ==
    {"application/pdf", "image/png", "image/jpeg", "image/webp", "image/tiff",
     "application/vnd.openxmlformats-officedocument.wordprocessingml.document"}

\* a text that is empty or whitespace only
IsBlank(t) == \A i \in 1..Len(t) : CharAt(t, i) \in PyWhitespace

\* a PDF page whose text layer is empty or whitespace only
BlankLayer(page) == page.layer.kind = "none" \/ (page.layer.kind = "text" /\ IsBlank(page.layer.val))

\* the description of the first failure the libraries raise on the pages of a
\* PDF from page n on ("" when there is none)
RECURSIVE FirstPageFailure(_, _)
FirstPageFailure(pages, n) ==
    IF n > Len(pages) THEN ""
    ELSE IF pages[n].layer.kind = "raise" THEN pages[n].layer.val
    ELSE IF BlankLayer(pages[n]) /\ pages[n].ocr.kind = "raise" THEN pages[n].ocr.val
    ELSE FirstPageFailure(pages, n + 1)

\* the description of the failure the dispatched extraction function raises on
\* an upload ("" when it returns)
EnvFailure(u) ==
    IF u.content_type = "application/pdf"
    THEN IF u.disk_full THEN "[Errno 28] No space left on device"
         ELSE IF u.body.corrupt THEN "No /Root object! - Is this really a PDF?"
         ELSE FirstPageFailure(u.body.pages, 1)
    ELSE IF u.content_type = DOCX_TYPE
    THEN IF u.body.corrupt THEN "File is not a zip file" ELSE ""
    ELSE IF u.body.corrupt THEN "cannot identify image file"
    ELSE IF u.body.image_ocr.kind = "raise" THEN u.body.image_ocr.val
    ELSE ""

\* the upload passes both validation checks
PassesValidation(u) == u.content_type \in AcceptedMediaTypes /\ u.body.size <= 20971520

(***************************************************************************)
(* Properties.                                                             *)
(***************************************************************************)

\* C1: a request whose declared content type is not one of the six accepted
\* media types never has its body read, never reaches an extraction function
\* or the backend, takes no step but the rejection, and ends with HTTP 400
\* whose detail names the rejected type, whatever the size of the body.
C1_UnsupportedTypeRejectedUnread ==
    \A r \in Reqs :
        upload[r].content_type \notin AcceptedMediaTypes =>
            /\ reads[r] = 0
            /\ data[r] = <<>>
            /\ extract_calls[r] = <<>>
            /\ ocr_calls[r] = <<>>
            /\ requests[r] = <<>>
            /\ pc[r] \in {"start", "done"}
            /\ Done(r) =>
                /\ response[r].status = 400
                /\ response[r].detail = "Unsupported type: " \o upload[r].content_type

\* C1 witness: an unsupported upload with a body over the size limit has been
\* answered with 400.
C1_Witness ==
    \E r \in Reqs :
        /\ upload[r].content_type = "text/plain"
        /\ upload[r].body.size > 20971520
        /\ Done(r)
        /\ response[r].status = 400

\* C2: for an accepted content type the request ends with HTTP 413 iff the body
\* is longer than 20,971,520 bytes; then no extraction function and no backend
\* call is invoked; a body of at most 20,971,520 bytes goes on to extraction.
C2_TooLargeIffOverLimit ==
    \A r \in Reqs :
        upload[r].content_type \in AcceptedMediaTypes =>
            /\ Done(r) => (response[r].status = 413 <=> upload[r].body.size > 20971520)
            /\ upload[r].body.size > 20971520 =>
                /\ extract_calls[r] = <<>>
                /\ ocr_calls[r] = <<>>
                /\ requests[r] = <<>>
                /\ fs = {}
                /\ pc[r] \in {"start", "read", "done"}
            /\ (upload[r].body.size <= 20971520 /\ Done(r)) => Len(extract_calls[r]) = 1

\* C2 witness: a body of exactly 20,971,520 bytes has passed the size check and
\* been extracted.
C2_Witness ==
    \E r \in Reqs :
        /\ upload[r].content_type \in AcceptedMediaTypes
        /\ upload[r].body.size = 20971520
        /\ Done(r)
        /\ extract_calls[r] # <<>>
        /\ response[r].status = 200

\* C3: once extraction has succeeded with every page text empty or whitespace
\* only (so that the joined text is blank), the backend is never called and
\* the request ends with HTTP 422.
AllPagesBlank(pages) == \A i \in 1..Len(pages) : IsBlank(pages[i].text)

C3_BlankTextIs422 ==
    \A r \in Reqs :
        (extraction[r] # <<>> /\ AllPagesBlank(extraction[r][1].pages)) =>
            /\ requests[r] = <<>>
            /\ reply[r] = NoReply
            /\ pc[r] \in {"join", "done"}
            /\ Done(r) => response[r].status = 422

\* C3 witness: an image whose OCR output is whitespace only has been answered
\* with 422.
C3_Witness ==
    \E r \in Reqs :
        /\ upload[r].content_type \in IMAGE_TYPES
        /\ extraction[r] # <<>>
        /\ extraction[r][1].pages[1].text = " \n"
        /\ Done(r)
        /\ response[r].status = 422

\* C4: the text handed to the JSON parser is the model output trimmed, with at
\* most one opener removed (the 7-character opener, else the 3-character one),
\* then the 3-character closer removed if present, then trimmed again.
ClaimedSanitize(content) ==
    LET c1 == Strip(content)
        c2 == IF StartsWith(c1, "'''json") THEN DropFirst(c1, 7)
              ELSE IF StartsWith(c1, "'''") THEN DropFirst(c1, 3)
              ELSE c1
        c3 == IF EndsWith(c2, "'''") THEN DropLast(c2, 3) ELSE c2
    IN  Strip(c3)

C4_SanitizeRemovesOneOpener ==
    \A r \in Reqs :
        loads_arg[r] # <<>> => loads_arg[r] = <<ClaimedSanitize(reply[r].content)>>

\* C5: the outcome "LLM returned invalid JSON" occurs exactly when the backend
\* answered with a success status and message.content, sanitized, is not JSON;
\* every other failure of the backend client gives "LLM analysis failed: ...".
ContentNotJson(rep) ==
    /\ rep.transport = "ok"
    /\ rep.status \in 200..299
    /\ rep.body_kind = "envelope"
    /\ ~JsonParses(Sanitize(rep.content))

OtherClientFailure(rep) ==
    \/ rep.transport # "ok"
    \/ rep.status \notin 200..299
    \/ rep.body_kind # "envelope"

C5_InvalidJsonOnlyForModelContent ==
    \A r \in Reqs :
        (Done(r) /\ reply[r] # NoReply) =>
            /\ response[r] = HTTPException(502, "LLM returned invalid JSON")
                  <=> ContentNotJson(reply[r])
            /\ OtherClientFailure(reply[r]) =>
                  /\ response[r].status = 502
                  /\ StartsWith(response[r].detail, "LLM analysis failed: ")

\* C6: when the request has its response, whatever the exit path of
\* extract_from_pdf, the temporary file created for the request is gone.
C6_TempFileDeletedOnEveryPath ==
    \A r \in Reqs : Done(r) => \A f \in fs : f.creator # r

\* C7: extract_from_pdf returns one entry per page, in source order, numbered
\* from 1; OCR is invoked for page i (index i-1) iff the text layer of page i
\* is empty or whitespace only; the text of page i is the trimmed text layer
\* when that is not blank and the trimmed OCR output of the same page otherwise.
ExpectedPageText(page) ==
    IF BlankLayer(page) THEN Strip(page.ocr.val) ELSE Strip(page.layer.val)

\* the indexes of the blank-layer pages among the first n pages, in order
RECURSIVE OcrIndexes(_, _)
OcrIndexes(pages, n) ==
    IF n = 0 THEN <<>>
    ELSE OcrIndexes(pages, n - 1) \o (IF BlankLayer(pages[n]) THEN <<n - 1>> ELSE <<>>)

EntriesMatch(out, pages) ==
    \A i \in 1..Len(out) :
        /\ out[i].page = i
        /\ out[i].text = ExpectedPageText(pages[i])

C7_PdfPagesInOrderWithOcrFallback ==
    \A r \in Reqs :
        upload[r].content_type = "application/pdf" =>
            LET pages == upload[r].body.pages
                m     == Len(all_pages[r])
            IN  /\ m <= Len(pages)
                /\ EntriesMatch(all_pages[r], pages)
                /\ \/ ocr_calls[r] = OcrIndexes(pages, m)
                   \/ /\ m < Len(pages)
                      /\ exc[r].kind = "raise"
                      /\ ocr_calls[r] = OcrIndexes(pages, m + 1)
                /\ extraction[r] # <<>> =>
                      /\ extraction[r][1].pages = all_pages[r]
                      /\ m = Len(pages)
                      /\ ocr_calls[r] = OcrIndexes(pages, Len(pages))

\* C7 witness: a two-page PDF whose first page has a text layer and whose
\* second page has none has been extracted, with OCR run on index 1 only.
C7_Witness ==
    \E r \in Reqs :
        /\ upload[r].content_type = "application/pdf"
        /\ extraction[r] # <<>>
        /\ Len(extraction[r][1].pages) = 2
        /\ ~BlankLayer(upload[r].body.pages[1])
        /\ BlankLayer(upload[r].body.pages[2])
        /\ ocr_calls[r] = <<1>>
        /\ extraction[r][1].pages[2] = [page |-> 2, text |-> "NaCl"]

\* C8: when a validated upload makes its extraction function raise, the
\* request ends with HTTP 500 whose detail carries the description of the
\* failure; it never ends with 200 or 422 and the backend is never called.
C8_ExtractionFailureIs500 ==
    \A r \in Reqs :
        (PassesValidation(upload[r]) /\ EnvFailure(upload[r]) # "") =>
            /\ requests[r] = <<>>
            /\ reply[r] = NoReply
            /\ extraction[r] = <<>>
            /\ pc[r] \notin {"join", "llm", "await", "aexit"}
            /\ response[r].status \in {0, 500}
            /\ Done(r) =>
                /\ response[r].status = 500
                /\ response[r].detail = "Extraction failed: " \o EnvFailure(upload[r])

\* C8 witness: a PDF whose second page fails in OCR has been answered with 500.
C8_Witness ==
    \E r \in Reqs :
        /\ upload[r].content_type = "application/pdf"
        /\ PassesValidation(upload[r])
        /\ ~upload[r].disk_full
        /\ Len(all_pages[r]) = 1
        /\ EnvFailure(upload[r]) = "tesseract failed"
        /\ Done(r)
        /\ response[r].status = 500

\* C9: a request posts at most one chat request to the backend, and only after
\* validation and extraction have succeeded with text that is not blank; when
\* the answer is a transport failure or is not valid JSON, the request ends
\* with that failure (502) without a second attempt.
C9_SingleBackendAttempt ==
    \A r \in Reqs :
        /\ Len(requests[r]) <= 1
        /\ requests[r] # <<>> =>
            /\ PassesValidation(upload[r])
            /\ reads[r] = 1
            /\ EnvFailure(upload[r]) = ""
            /\ extraction[r] # <<>>
            /\ ~AllPagesBlank(extraction[r][1].pages)
        /\ reply[r] # NoReply =>
            /\ Len(requests[r]) = 1
            /\ pc[r] \in {"aexit", "done"}
            /\ (Done(r) /\ (OtherClientFailure(reply[r]) \/ ContentNotJson(reply[r]))) =>
                  response[r].status = 502

\* C9 witness: the backend was unreachable and the request ended with 502
\* after its single attempt.
C9_Witness ==
    \E r \in Reqs :
        /\ reply[r].transport = "ConnectError"
        /\ Len(requests[r]) = 1
        /\ Done(r)
        /\ response[r].status = 502

\* C10: with two requests in flight, under every interleaving, the response
\* of each is the one it gets when processed alone (a function of its own
\* upload and its own backend answer); every temporary file holds nothing but
\* the body of the request that created it, and a request between creating
\* and deleting its temporary file still finds it, its own.
C10_RequestsIndependent ==
    /\ \A r \in Reqs :
        /\ Done(r) => response[r] = ResponseAlone(upload[r], reply[r])
        /\ data[r] \in {<<>>, <<upload[r].body>>}
        /\ pc[r] \in {"pdf_write", "pdf_open", "pdf_page", "pdf_unlink"} =>
              \E f \in fs : f.name = tmp_path[r] /\ f.creator = r
        /\ pc[r] = "pdf_page" => pdf[r] = upload[r].body
    /\ \A f \in fs :
        /\ tmp_path[f.creator] = f.name
        /\ f.body \in {EmptyBody, upload[f.creator].body}

\* C10 witness: two different PDFs are in their page loops at the same time,
\* each with its own temporary file.
C10_Witness ==
    /\ Cardinality(Reqs) = 2
    /\ \A r \in Reqs : pc[r] = "pdf_page" /\ \E f \in fs : f.creator = r
    /\ \E r1, r2 \in Reqs : upload[r1].body # upload[r2].body

====
